---- MODULE Spec2Model ----
(***************************************************************************)
(* Model of the attribute helpers of versionize_derive (src/helpers.rs):   *)
(* scan_attributes, parse_field_attributes, the typed accessors            *)
(* get_start_version / get_end_version / get_ident_attr, has_c_layout and  *)
(* compute_version.  The helpers are pure functions; each specification    *)
(* draws an input from a bounded set and its actions apply the helpers.    *)
(***************************************************************************)
EXTENDS Integers, Sequences, FiniteSets, TLC

VARIABLES attributes, fields, attrs, ret

vars == <<attributes, fields, attrs, ret>>

----------------------------------------------------------------------------
(* Bounds of the inputs *)

\* longest attribute slice
MaxAttrs == 2
\* most nested items, summed over the attributes of one slice
MaxItems == 2
\* longest slice of field descriptors
MaxFields == 3
\* largest start/end version of a field descriptor
MaxVersion == 2
\* largest N and M of an attribute giving both start_version = N and
\* end_version = M
MaxBoth == 5
\* how far past u16::MAX the integer literals of an attribute map go
MaxOverflow == 2

----------------------------------------------------------------------------
(* Constants of the program *)

\* u16::MAX, the range of the version numbers
U16Max == 65535

\* imported from the enclosing module (helpers.rs line 4)
ATTRIBUTE_NAME == "version"
START_VERSION == "start_version"
END_VERSION == "end_version"
DEFAULT_FN == "default_fn"

\* the panic messages (unwrap's are written without their backquotes)
MsgVersion == "Field start/end version number must be an integer"
MsgDefaultFn == "default_fn must be the function name as a String."
MsgUnwrapErr == "called Result::unwrap() on an Err value"
MsgUnwrapNone == "called Option::unwrap() on a None value"
MsgInvalidIdent == "is not a valid Ident"

----------------------------------------------------------------------------
(* The syntax tree: literals, nested meta items, attributes *)

\* syn::Lit::Int: the token's sign and base-10 digits
LitInt(neg, digits) ==
    [kind |-> "Int", neg |-> neg, digits |-> digits, str |-> ""]

\* syn::Lit::Str: the string's content
LitStr(s) == [kind |-> "Str", neg |-> FALSE, digits |-> <<>>, str |-> s]

\* syn::Lit::Bool, standing for every literal that is neither Int nor Str
LitBool == [kind |-> "Bool", neg |-> FALSE, digits |-> <<>>, str |-> ""]

NoLit == [kind |-> "None", neg |-> FALSE, digits |-> <<>>, str |-> ""]

\* syn::NestedMeta::Meta(syn::Meta::Path(path))
MetaPath(path) == [tag |-> "Meta", shape |-> "Path", path |-> path, lit |-> NoLit]

\* syn::NestedMeta::Meta(syn::Meta::NameValue(path = lit))
MetaNameValue(path, lit) ==
    [tag |-> "Meta", shape |-> "NameValue", path |-> path, lit |-> lit]

\* syn::NestedMeta::Meta(syn::Meta::List(path(...)))
MetaList(path) == [tag |-> "Meta", shape |-> "List", path |-> path, lit |-> NoLit]

\* syn::NestedMeta::Lit(lit)
NestedLit(lit) == [tag |-> "Lit", shape |-> "Lit", path |-> <<>>, lit |-> lit]

\* syn::Attribute: its leading path, and what parse_meta() makes of it:
\* "List" (with the nested items), "Path", "NameValue" or "Err"
Attribute(path, meta, nested) == [path |-> path, meta |-> meta, nested |-> nested]

\* syn::Path::is_ident: a single segment that spells name
is_ident(path, name) == Len(path) = 1 /\ path[1] = name

\* syn::Path::get_ident: Some(the segment) of a single-segment path
get_ident(path) ==
    IF Len(path) = 1 THEN [some |-> TRUE, ident |-> path[1]]
    ELSE [some |-> FALSE, ident |-> ""]

----------------------------------------------------------------------------
(* Outcomes of a call *)

Some(v) == [tag |-> "Some", val |-> v, msg |-> ""]
None == [tag |-> "None", val |-> 0, msg |-> ""]
Ok(v) == [tag |-> "Ok", val |-> v, msg |-> ""]
Panic(m) == [tag |-> "Panic", val |-> 0, msg |-> m]
Unset == [tag |-> "Unset", val |-> 0, msg |-> ""]

----------------------------------------------------------------------------
(* scan_attributes *)

\* a slip: the leading path is not compared with the name
scan_attribute_any_path(attribute_name, attr) ==
    IF attr.meta = "List" THEN attr.nested ELSE <<>>

\* the closure of the flat_map: the items one attribute contributes
scan_attribute(attribute_name, attr) ==
    IF ~is_ident(attr.path, attribute_name) THEN <<>>
    ELSE IF attr.meta = "List" THEN attr.nested
    ELSE <<>>

RECURSIVE scan_attributes(_, _)
scan_attributes(attribute_name, attributes_) ==
    IF attributes_ = <<>> THEN <<>>
    ELSE scan_attribute(attribute_name, Head(attributes_))
            \o scan_attributes(attribute_name, Tail(attributes_))

----------------------------------------------------------------------------
(* parse_field_attributes *)

EmptyMap == [k \in {} |-> NoLit]

\* a slip: an entry already there is kept (entry().or_insert())
insert_if_absent(map, key, value) ==
    [k \in DOMAIN map \cup {key} |-> IF k \in DOMAIN map THEN map[k] ELSE value]

\* HashMap::insert: a new entry, or the value of an old one replaced
insert(map, key, value) ==
    [k \in DOMAIN map \cup {key} |-> IF k = key THEN value ELSE map[k]]

\* the body of the for loop: one scanned item met with the map so far
parse_item(map, item) ==
    IF item.tag = "Meta" /\ item.shape = "NameValue"
    THEN IF get_ident(item.path).some
         THEN Ok(insert(map, get_ident(item.path).ident, item.lit))
         ELSE Panic(MsgUnwrapNone)
    ELSE Ok(map)

RECURSIVE parse_items(_, _)
parse_items(map, items) ==
    IF items = <<>> THEN Ok(map)
    ELSE LET r == parse_item(map, Head(items)) IN
         IF r.tag = "Panic" THEN r ELSE parse_items(r.val, Tail(items))

parse_field_attributes(attributes_) ==
    parse_items(EmptyMap, scan_attributes(ATTRIBUTE_NAME, attributes_))

----------------------------------------------------------------------------
(* has_c_layout *)

RECURSIVE has_c_layout_items(_)
has_c_layout_items(items) ==
    IF items = <<>> THEN Ok(FALSE)
    ELSE LET item == Head(items) IN
         IF item.tag = "Meta" /\ item.shape = "Path"
         THEN IF ~get_ident(item.path).some THEN Panic(MsgUnwrapNone)
              ELSE IF get_ident(item.path).ident = "C" THEN Ok(TRUE)
              ELSE has_c_layout_items(Tail(items))
         ELSE has_c_layout_items(Tail(items))

has_c_layout(attributes_) == has_c_layout_items(scan_attributes("repr", attributes_))

----------------------------------------------------------------------------
(* The typed accessors *)

\* a slip: the value is cut to 16 bits instead of checked
RECURSIVE parse_digits_wrapping(_, _)
parse_digits_wrapping(digits, acc) ==
    IF digits = <<>> THEN [ok |-> TRUE, val |-> acc]
    ELSE parse_digits_wrapping(Tail(digits), (acc * 10 + Head(digits)) % (U16Max + 1))

\* u16::from_str on the digits: each digit is added with an overflow check
RECURSIVE parse_digits(_, _)
parse_digits(digits, acc) ==
    IF digits = <<>> THEN [ok |-> TRUE, val |-> acc]
    ELSE LET v == acc * 10 + Head(digits) IN
         IF v > U16Max THEN [ok |-> FALSE, val |-> 0]
         ELSE parse_digits(Tail(digits), v)

\* LitInt::base10_parse::<u16>: the suffix is dropped, a sign is no digit
base10_parse(lit_int) ==
    IF lit_int.neg \/ lit_int.digits = <<>> THEN [ok |-> FALSE, val |-> 0]
    ELSE parse_digits(lit_int.digits, 0)

\* a slip: a literal of another kind counts as version 0
version_of_lit_coerced(lit) ==
    IF lit.kind = "Int"
    THEN LET r == base10_parse(lit) IN
         IF r.ok THEN Some(r.val) ELSE Panic(MsgUnwrapErr)
    ELSE Some(0)

\* the match on the literal found under start_version / end_version
version_of_lit(lit) ==
    IF lit.kind = "Int"
    THEN LET r == base10_parse(lit) IN
         IF r.ok THEN Some(r.val) ELSE Panic(MsgUnwrapErr)
    ELSE Panic(MsgVersion)

get_start_version(map) ==
    IF START_VERSION \in DOMAIN map THEN version_of_lit(map[START_VERSION])
    ELSE None

\* a slip: the copy of get_start_version still looks up start_version
get_end_version_of_start(map) ==
    IF START_VERSION \in DOMAIN map THEN version_of_lit(map[START_VERSION])
    ELSE None

get_end_version(map) ==
    IF END_VERSION \in DOMAIN map THEN version_of_lit(map[END_VERSION])
    ELSE None

\* the spellings, among the string contents used here, that Ident::new accepts
IdentSpellings == {"make_zero", "two"}

\* format_ident!("{}", s): Ident::new panics on what is no identifier
format_ident(s) ==
    IF s \in IdentSpellings THEN Some(s) ELSE Panic(MsgInvalidIdent)

\* the match on the literal found under attr_name
ident_of_lit(lit) ==
    IF lit.kind = "Str" THEN format_ident(lit.str) ELSE Panic(MsgDefaultFn)

get_ident_attr(map, attr_name) ==
    IF attr_name \in DOMAIN map THEN ident_of_lit(map[attr_name]) ELSE None

----------------------------------------------------------------------------
(* compute_version *)

max(a, b) == IF a >= b THEN a ELSE b

\* a slip: the end version is left out
version_step_start_only(version, field) == max(version, field.start_version)

\* a slip: the version found so far is forgotten
version_step_last(version, field) == max(field.start_version, field.end_version)

\* the body of the for loop
version_step(version, field) ==
    max(version, max(field.start_version, field.end_version))

RECURSIVE compute_version_from(_, _)
compute_version_from(version, fields_) ==
    IF fields_ = <<>> THEN version
    ELSE compute_version_from(version_step(version, Head(fields_)), Tail(fields_))

compute_version(fields_) == compute_version_from(0, fields_)

----------------------------------------------------------------------------
(* The inputs *)

\* the source token of the integer n: its base-10 digits
RECURSIVE Digits(_)
Digits(n) == IF n < 10 THEN <<n>> ELSE Append(Digits(n \div 10), n % 10)

IntToken(n) == LitInt(FALSE, Digits(n))

OptionNames == {START_VERSION, END_VERSION, DEFAULT_FN}

\* The slices of attributes are drawn by their layout: the number of
\* attributes, the number of nested items of each (MaxItems at most in all),
\* the leading path and the shape of each, and the nested items in a row.
RECURSIVE SumTo(_, _)
SumTo(counts, i) == IF i = 0 THEN 0 ELSE counts[i] + SumTo(counts, i - 1)

ItemCounts(n) == {c \in [1..n -> 0..MaxItems] : SumTo(c, n) <= MaxItems}

\* an attribute that has nested items is a list
Shapes(n, counts) ==
    {s \in [1..n -> {"List", "Path", "NameValue", "Err"}] :
        \A i \in 1..n : counts[i] > 0 => s[i] = "List"}

AttributeSlice(n, counts, leads, shapes, items) ==
    [i \in 1..n |->
        Attribute(leads[i], shapes[i],
                  SubSeq(items, SumTo(counts, i - 1) + 1, SumTo(counts, i)))]

\* on a field: the marker, another attribute and a path of two segments
\* that starts with the marker; options of right and wrong
\* kind, a repeated option, a name of two segments, and items that are no
\* name/value
FieldLeads == {<<ATTRIBUTE_NAME>>, <<"repr">>, <<ATTRIBUTE_NAME, "x">>}
FieldItems ==
    {MetaNameValue(<<START_VERSION>>, IntToken(2)),
     MetaNameValue(<<START_VERSION>>, LitStr("two")),
     MetaNameValue(<<END_VERSION>>, IntToken(5)),
     MetaNameValue(<<"a", "b">>, IntToken(2)),
     MetaPath(<<"C">>)}

\* on a definition: repr, another attribute and a path of two segments that
\* starts with repr; the options of repr
LayoutLeads == {<<"repr">>, <<"derive">>, <<"repr", "x">>}
LayoutItems ==
    {MetaPath(<<"C">>),
     MetaPath(<<"packed">>),
     MetaPath(<<"a", "b">>),
     MetaList(<<"align">>),
     NestedLit(LitStr("C"))}

\* #[<marker>(<name> = <lit>)] and #[<marker>(start_version = N, end_version = M)]
MarkerAttribute(items) == Attribute(<<ATTRIBUTE_NAME>>, "List", items)
LoneOption(name, n) == <<MarkerAttribute(<<MetaNameValue(<<name>>, IntToken(n))>>)>>
BothOptions(n, m) ==
    <<MarkerAttribute(<<MetaNameValue(<<START_VERSION>>, IntToken(n)),
                        MetaNameValue(<<END_VERSION>>, IntToken(m))>>)>>
\* the literals of an attribute map: integers in and out of the u16 range,
\* with leading zeros, negative; strings; another kind
MapLits ==
    {IntToken(n) : n \in {0, 2, U16Max}}
    \cup {IntToken(U16Max + k) : k \in 1..MaxOverflow}
    \cup {LitInt(FALSE, <<0, 0, 7>>), LitInt(TRUE, <<1>>),
          LitStr("make_zero"), LitStr("1x"), LitBool}

FieldDescriptors ==
    [start_version : 0..MaxVersion, end_version : 0..MaxVersion]

----------------------------------------------------------------------------
(* The calls.  A panic aborts the generation: nothing is called after it. *)

NoCall == [fn |-> "none", arg |-> "", out |-> Unset]

Aborted == ret.out.tag = "Panic"

ScanAttributes(attribute_name) ==
    /\ ~Aborted
    /\ ret' = [fn |-> "scan_attributes", arg |-> attribute_name,
               out |-> Ok(scan_attributes(attribute_name, attributes))]
    /\ UNCHANGED <<attributes, fields, attrs>>

ParseFieldAttributes ==
    /\ ~Aborted
    /\ attrs' = parse_field_attributes(attributes)
    /\ ret' = [fn |-> "parse_field_attributes", arg |-> "", out |-> attrs']
    /\ UNCHANGED <<attributes, fields>>

GetStartVersion ==
    /\ ~Aborted
    /\ attrs.tag = "Ok"
    /\ ret' = [fn |-> "get_start_version", arg |-> "",
               out |-> get_start_version(attrs.val)]
    /\ UNCHANGED <<attributes, fields, attrs>>

GetEndVersion ==
    /\ ~Aborted
    /\ attrs.tag = "Ok"
    /\ ret' = [fn |-> "get_end_version", arg |-> "",
               out |-> get_end_version(attrs.val)]
    /\ UNCHANGED <<attributes, fields, attrs>>

GetIdentAttr(attr_name) ==
    /\ ~Aborted
    /\ attrs.tag = "Ok"
    /\ ret' = [fn |-> "get_ident_attr", arg |-> attr_name,
               out |-> get_ident_attr(attrs.val, attr_name)]
    /\ UNCHANGED <<attributes, fields, attrs>>

HasCLayout ==
    /\ ~Aborted
    /\ ret' = [fn |-> "has_c_layout", arg |-> "", out |-> has_c_layout(attributes)]
    /\ UNCHANGED <<attributes, fields, attrs>>

ComputeVersion ==
    /\ ~Aborted
    /\ ret' = [fn |-> "compute_version", arg |-> "",
               out |-> Ok(compute_version(fields))]
    /\ UNCHANGED <<attributes, fields, attrs>>

----------------------------------------------------------------------------
(* The specifications *)

\* the attributes of a field are scanned and parsed
Init ==
    /\ \E n \in 0..MaxAttrs : \E counts \in ItemCounts(n) :
          \E leads \in [1..n -> FieldLeads], shapes \in Shapes(n, counts),
             items \in [1..SumTo(counts, n) -> FieldItems] :
                attributes = AttributeSlice(n, counts, leads, shapes, items)
    /\ fields = <<>>
    /\ attrs = Unset
    /\ ret = NoCall

Next ==
    \/ \E attribute_name \in {ATTRIBUTE_NAME, "repr"} : ScanAttributes(attribute_name)
    \/ ParseFieldAttributes

Spec == Init /\ [][Next]_vars

\* a version option is parsed and read back
InitRead ==
    /\ \/ \E n \in 0..U16Max : attributes = LoneOption(START_VERSION, n)
       \/ \E n \in 0..U16Max : attributes = LoneOption(END_VERSION, n)
       \/ \E n \in 0..MaxBoth, m \in 0..MaxBoth : attributes = BothOptions(n, m)
    /\ fields = <<>>
    /\ attrs = Unset
    /\ ret = NoCall

NextRead ==
    \/ ParseFieldAttributes
    \/ GetStartVersion
    \/ GetEndVersion

SpecRead == InitRead /\ [][NextRead]_vars

\* an attribute map is read through the typed accessors
InitAccess ==
    /\ attributes = <<>>
    /\ fields = <<>>
    /\ \E names \in SUBSET OptionNames : \E map \in [names -> MapLits] :
          attrs = Ok(map)
    /\ ret = NoCall

NextAccess ==
    \/ GetStartVersion
    \/ GetEndVersion
    \/ \E attr_name \in OptionNames : GetIdentAttr(attr_name)

SpecAccess == InitAccess /\ [][NextAccess]_vars

\* the attributes of a definition are probed for repr(C)
InitLayout ==
    /\ \E n \in 0..MaxAttrs : \E counts \in ItemCounts(n) :
          \E leads \in [1..n -> LayoutLeads], shapes \in Shapes(n, counts),
             items \in [1..SumTo(counts, n) -> LayoutItems] :
                attributes = AttributeSlice(n, counts, leads, shapes, items)
    /\ fields = <<>>
    /\ attrs = Unset
    /\ ret = NoCall

NextLayout ==
    \/ ScanAttributes("repr")
    \/ HasCLayout

SpecLayout == InitLayout /\ [][NextLayout]_vars

\* the version of a definition is computed from its fields
InitVersion ==
    /\ attributes = <<>>
    /\ \E n \in 0..MaxFields : fields \in [1..n -> FieldDescriptors]
    /\ attrs = Unset
    /\ ret = NoCall

NextVersion == ComputeVersion

SpecVersion == InitVersion /\ [][NextVersion]_vars

----------------------------------------------------------------------------
(* What the properties speak of, stated on the syntax tree itself *)

\* the places <<i, j>> of the nested items under the attributes whose leading
\* path is exactly name and whose shape is a list
Positions(name) ==
    UNION {{<<i, j>> : j \in DOMAIN attributes[i].nested} :
            i \in {k \in DOMAIN attributes :
                     attributes[k].path = <<name>> /\ attributes[k].meta = "List"}}

ItemAt(p) == attributes[p[1]].nested[p[2]]

\* source order: by attribute, then by element inside the attribute
Before(p, q) == p[1] < q[1] \/ (p[1] = q[1] /\ p[2] < q[2])

Rank(name, p) == Cardinality({q \in Positions(name) : Before(q, p)}) + 1

\* the name/value items under the marker
Options == {p \in Positions(ATTRIBUTE_NAME) :
              ItemAt(p).tag = "Meta" /\ ItemAt(p).shape = "NameValue"}

\* the number a row of base-10 digits denotes
RECURSIVE Denotes(_)
Denotes(digits) ==
    IF digits = <<>> THEN 0
    ELSE 10 * Denotes(SubSeq(digits, 1, Len(digits) - 1)) + digits[Len(digits)]

\* an integer literal whose value is no u16
DoesNotFit(lit) == lit.kind = "Int" /\ (lit.neg \/ Denotes(lit.digits) > U16Max)

\* the literal given to the option name in the first attribute
OptionToken(name) ==
    (CHOOSE item \in {attributes[1].nested[j] : j \in DOMAIN attributes[1].nested} :
        item.path = <<name>>).lit

HasOption(name) ==
    \E j \in DOMAIN attributes[1].nested : attributes[1].nested[j].path = <<name>>

\* some repr attribute lists the bare path C
HasReprC ==
    \E p \in Positions("repr") :
        ItemAt(p).tag = "Meta" /\ ItemAt(p).shape = "Path" /\ ItemAt(p).path = <<"C">>

----------------------------------------------------------------------------
(* C1: has_c_layout returns true exactly when some attribute led by repr    *)
(* lists the bare path C, and false for every other attribute list.         *)
C1_LayoutIffReprC ==
    ret.fn = "has_c_layout" =>
        /\ ret.out.tag = "Ok"
        /\ ret.out.val = HasReprC

(* C2: compute_version returns the maximum of all start and end versions:   *)
(* it is at least each of them, it is one of them when there is a field,    *)
(* it is 0 for the empty slice, and (0,0),(1,3),(4,2) gives 4.              *)
C2_VersionIsMaximum ==
    /\ compute_version(<<[start_version |-> 0, end_version |-> 0],
                         [start_version |-> 1, end_version |-> 3],
                         [start_version |-> 4, end_version |-> 2]>>) = 4
    /\ ret.fn = "compute_version" =>
        /\ ret.out.val \in 0..U16Max
        /\ \A i \in DOMAIN fields :
              /\ ret.out.val >= fields[i].start_version
              /\ ret.out.val >= fields[i].end_version
        /\ fields # <<>> =>
              \E i \in DOMAIN fields :
                  ret.out.val \in {fields[i].start_version, fields[i].end_version}
        /\ fields = <<>> => ret.out.val = 0

\* three fields, and the maximum is the end version of one of them alone
C2_Witness ==
    /\ ret.fn = "compute_version"
    /\ Len(fields) = 3
    /\ ret.out.val = fields[2].end_version
    /\ fields[2].start_version < ret.out.val
    /\ \A i \in {1, 3} :
          fields[i].start_version < ret.out.val /\ fields[i].end_version < ret.out.val

(* C3: a lone start_version = N under the marker is read back by            *)
(* get_start_version as Some(N), a lone end_version = M by get_end_version   *)
(* as Some(M), and with both in one attribute the map has two entries and   *)
(* each accessor returns its own option's value.                            *)
C3_VersionReadBack ==
    /\ (ret.fn = "get_start_version" /\ HasOption(START_VERSION)) =>
          ret.out = Some(Denotes(OptionToken(START_VERSION).digits))
    /\ (ret.fn = "get_end_version" /\ HasOption(END_VERSION)) =>
          ret.out = Some(Denotes(OptionToken(END_VERSION).digits))
    /\ (attrs.tag = "Ok" /\ HasOption(START_VERSION) /\ HasOption(END_VERSION)) =>
          DOMAIN attrs.val = {START_VERSION, END_VERSION}
    /\ (ret.fn = "get_start_version" /\ attributes = BothOptions(2, 5)) =>
          ret.out = Some(2)
    /\ (ret.fn = "get_end_version" /\ attributes = BothOptions(2, 5)) =>
          ret.out = Some(5)

\* the largest version, alone in its attribute, has been read back
C3_Witness ==
    /\ ret.fn = "get_end_version"
    /\ attributes = LoneOption(END_VERSION, U16Max)
    /\ ret.out = Some(U16Max)

(* C4, as first stated: a literal that is no integer under start_version    *)
(* or end_version fails with "Field start/end version number must be an     *)
(* integer.", and a literal that is no string under the looked-up name      *)
(* fails get_ident_attr with "default_fn must be the function name as a     *)
(* String."                                                                 *)
C4_WrongKindFailsAsStated ==
    /\ (ret.fn = "get_start_version" /\ START_VERSION \in DOMAIN attrs.val
            /\ attrs.val[START_VERSION].kind # "Int") =>
          ret.out = Panic("Field start/end version number must be an integer.")
    /\ (ret.fn = "get_end_version" /\ END_VERSION \in DOMAIN attrs.val
            /\ attrs.val[END_VERSION].kind # "Int") =>
          ret.out = Panic("Field start/end version number must be an integer.")
    /\ (ret.fn = "get_ident_attr" /\ ret.arg \in DOMAIN attrs.val
            /\ attrs.val[ret.arg].kind # "Str") =>
          ret.out = Panic("default_fn must be the function name as a String.")

(* C4, amended: the same, the message of the version accessors being        *)
(* "Field start/end version number must be an integer", with no full stop.  *)
C4_WrongKindFails ==
    /\ (ret.fn = "get_start_version" /\ START_VERSION \in DOMAIN attrs.val
            /\ attrs.val[START_VERSION].kind # "Int") =>
          ret.out = Panic("Field start/end version number must be an integer")
    /\ (ret.fn = "get_end_version" /\ END_VERSION \in DOMAIN attrs.val
            /\ attrs.val[END_VERSION].kind # "Int") =>
          ret.out = Panic("Field start/end version number must be an integer")
    /\ (ret.fn = "get_ident_attr" /\ ret.arg \in DOMAIN attrs.val
            /\ attrs.val[ret.arg].kind # "Str") =>
          ret.out = Panic("default_fn must be the function name as a String.")

\* a string under start_version has stopped get_start_version
C4_Witness ==
    /\ ret.fn = "get_start_version"
    /\ START_VERSION \in DOMAIN attrs.val
    /\ attrs.val[START_VERSION].kind = "Str"
    /\ ret.out.tag = "Panic"

(* C5, as first stated: an integer literal that does not fit a u16 fails    *)
(* get_start_version / get_end_version with the message of a wrong-kind     *)
(* literal (taken here with or without its full stop).                      *)
C5_OutOfRangeFailsAsStated ==
    /\ (ret.fn = "get_start_version" /\ START_VERSION \in DOMAIN attrs.val
            /\ DoesNotFit(attrs.val[START_VERSION])) =>
          /\ ret.out.tag = "Panic"
          /\ ret.out.msg \in {"Field start/end version number must be an integer.",
                              "Field start/end version number must be an integer"}
    /\ (ret.fn = "get_end_version" /\ END_VERSION \in DOMAIN attrs.val
            /\ DoesNotFit(attrs.val[END_VERSION])) =>
          /\ ret.out.tag = "Panic"
          /\ ret.out.msg \in {"Field start/end version number must be an integer.",
                              "Field start/end version number must be an integer"}

(* C5, amended: an integer literal that does not fit a u16 ends both        *)
(* accessors in a hard failure, the panic of unwrap on the failed parse     *)
(* ("called Result::unwrap() on an Err value"); no value is returned.       *)
C5_OutOfRangeFails ==
    /\ (ret.fn = "get_start_version" /\ START_VERSION \in DOMAIN attrs.val
            /\ DoesNotFit(attrs.val[START_VERSION])) =>
          ret.out = Panic("called Result::unwrap() on an Err value")
    /\ (ret.fn = "get_end_version" /\ END_VERSION \in DOMAIN attrs.val
            /\ DoesNotFit(attrs.val[END_VERSION])) =>
          ret.out = Panic("called Result::unwrap() on an Err value")

\* 65536 under end_version has stopped get_end_version
C5_Witness ==
    /\ ret.fn = "get_end_version"
    /\ END_VERSION \in DOMAIN attrs.val
    /\ attrs.val[END_VERSION] = IntToken(U16Max + 1)
    /\ ret.out.tag = "Panic"

(* C6, as first stated: compute_version is 0 exactly when the slice of      *)
(* fields is empty.                                                         *)
C6_ZeroIffEmpty ==
    ret.fn = "compute_version" => (ret.out.val = 0 <=> fields = <<>>)

(* C6, amended: compute_version is 0 exactly when every field has start     *)
(* and end version 0, which the empty slice does.                           *)
C6_ZeroIffAllZero ==
    ret.fn = "compute_version" =>
        (ret.out.val = 0 <=>
            \A i \in DOMAIN fields :
                fields[i].start_version = 0 /\ fields[i].end_version = 0)

\* fields there are, all of version 0, and the version computed is 0
C6_Witness ==
    /\ ret.fn = "compute_version"
    /\ Len(fields) = 2
    /\ \A i \in DOMAIN fields :
          fields[i].start_version = 0 /\ fields[i].end_version = 0
    /\ ret.out.val = 0

(* C7: parse_field_attributes never fails: it returns the map of the        *)
(* name/value items under the marker whose name is an identifier, and       *)
(* skips every other item.                                                  *)
C7_ParseNeverFails ==
    ret.fn = "parse_field_attributes" =>
        /\ attrs.tag = "Ok"
        /\ DOMAIN attrs.val =
              {ItemAt(p).path[1] : p \in {q \in Options : Len(ItemAt(q).path) = 1}}

(* C8: has_c_layout never fails, and every option of repr other than the    *)
(* bare path C gives neither an error nor true.                             *)
C8_LayoutNeverFails ==
    ret.fn = "has_c_layout" =>
        /\ ret.out.tag # "Panic"
        /\ ~HasReprC => ret.out = Ok(FALSE)

(* C9: scan_attributes returns, in source order, the nested items of the    *)
(* attributes led by exactly the marker and shaped as a list, and nothing   *)
(* else; it never fails; what lies outside the marker does not reach        *)
(* parse_field_attributes.                                                  *)
C9_ScanConcatenates ==
    /\ ret.fn = "scan_attributes" =>
        /\ ret.out.tag = "Ok"
        /\ Len(ret.out.val) = Cardinality(Positions(ret.arg))
        /\ \A p \in Positions(ret.arg) : ret.out.val[Rank(ret.arg, p)] = ItemAt(p)
    /\ ret.fn = "parse_field_attributes" =>
        ret.out = parse_field_attributes(
                      SelectSeq(attributes, LAMBDA a : a.path = <<ATTRIBUTE_NAME>>))

\* two attributes under the marker gave one item each, and another item
\* comes second
C9_Witness ==
    /\ ret.fn = "scan_attributes"
    /\ Len(attributes) = 2
    /\ Len(ret.out.val) = 2
    /\ ret.out.val[1] # ret.out.val[2]
    /\ attributes[1].nested = <<ret.out.val[1]>>
    /\ attributes[2].nested = <<ret.out.val[2]>>

====
